---- MODULE Spec2Model ----
(***************************************************************************)
(* Model of the medication dose-schedule projection of the medication      *)
(* tracker (MedicationTimeline component, getMedicationSchedule).          *)
(*                                                                         *)
(* Encoding of JavaScript values:                                          *)
(*   - an optional field is a set: {} when the field is undefined, {v}     *)
(*     when it holds v;                                                    *)
(*   - strings the code inspects (toLowerCase, startsWith, includes) are   *)
(*     sequences of one-character strings; strings the code only passes    *)
(*     through (clock times, dose units) are TLA+ strings;                 *)
(*   - a Date is its getTime() value split into whole days since the epoch *)
(*     and milliseconds within the day, [day |-> d, ms |-> t] standing for *)
(*     d * MsPerDay + t, in a time zone without offset or daylight saving  *)
(*     (days of 24 hours); months are further than 2^31 ms apart.          *)
(***************************************************************************)
EXTENDS Integers, Sequences, FiniteSets, TLC

\* ------------------------------------------------------------------ bounds
MaxPhases == 2          \* longest timingSequence explored
MaxDuration == 2        \* largest duration of a generated phase
MaxDay == 12            \* last calendar day (days since the epoch) projected
MaxStartDay == 3        \* last day (since the epoch) the component mounts on
MaxFrequency == 24      \* largest frequency of a generated daily phase
MaxWeeklyDay == 23      \* last calendar day projected for the weekly regimens
MaxWeeklyFrequency == 8 \* largest frequency of a generated weekly phase
MaxNavigate == 1        \* months the calendar is moved away from the mount month
MaxCalls == 2           \* sendPrompt calls made in one session
MaxNodes == 2           \* nodes of a graph besides Initial
MaxConnections == 3     \* connections open to the HTTP server at once
MaxSignals == 2         \* SIGTERM / SIGINT signals delivered to the server

\* --------------------------------------------------------------- constants
MsPerDay == 1000 * 60 * 60 * 24

\* ------------------------------------------------------------ string model
s_day == <<"d", "a", "y">>
s_Days == <<"D", "a", "y", "s">>
s_week == <<"w", "e", "e", "k">>
s_weeks == <<"w", "e", "e", "k", "s">>
s_hour == <<"h", "o", "u", "r">>
s_morn == <<"m", "o", "r", "n">>
s_noon == <<"n", "o", "o", "n">>
s_afternoon == <<"a", "f", "t", "e", "r", "n", "o", "o", "n">>
s_even == <<"e", "v", "e", "n">>
s_night == <<"n", "i", "g", "h", "t">>
s_bed == <<"b", "e", "d">>
s_bedtime == <<"b", "e", "d", "t", "i", "m", "e">>
s_Morning == <<"M", "o", "r", "n", "i", "n", "g">>
s_withFood == <<"w", "i", "t", "h", " ", "f", "o", "o", "d">>
s_Monday == <<"M", "o", "n", "d", "a", "y">>
s_thursday == <<"t", "h", "u", "r", "s", "d", "a", "y">>
s_Night == <<"N", "i", "g", "h", "t">>
s_Afternoon == <<"A", "f", "t", "e", "r", "n", "o", "o", "n">>
s_Bedtime == <<"B", "e", "d", "t", "i", "m", "e">>
s_Noon == <<"N", "o", "o", "n">>
s_eveningBeforeBed == <<"e", "v", "e", "n", "i", "n", "g", " ", "b", "e", "f", "o", "r", "e", " ", "b", "e", "d">>
s_month == <<"m", "o", "n", "t", "h">>

\* String.prototype.toLowerCase on the letters the inputs use.
lowerChar(c) ==
  CASE c = "D" -> "d"
    [] c = "M" -> "m"
    [] c = "T" -> "t"
    [] c = "W" -> "w"
    [] c = "S" -> "s"
    [] c = "F" -> "f"
    [] c = "A" -> "a"
    [] c = "B" -> "b"
    [] c = "N" -> "n"
    [] OTHER -> c

toLowerCase(s) == [i \in 1..Len(s) |-> lowerChar(s[i])]

startsWith(s, p) == Len(s) >= Len(p) /\ SubSeq(s, 1, Len(p)) = p

includes(s, p) ==
  \E i \in 1..(Len(s) + 1) :
     i + Len(p) - 1 <= Len(s) /\ SubSeq(s, i, i + Len(p) - 1) = p

\* Array.prototype.includes
arrayIncludes(a, x) == \E i \in 1..Len(a) : a[i] = x

\* ----------------------------------------------------- optional-field model
\* `x || dflt` for an optional number: undefined and 0 are falsy.
orNumber(x, dflt) == IF x = {} \/ x = {0} THEN dflt ELSE CHOOSE v \in x : TRUE

\* `x || dflt` for an optional string: undefined and "" are falsy.
orString(x, dflt) == IF x = {} \/ x = {<<>>} THEN dflt ELSE CHOOSE v \in x : TRUE

\* `a && a.length > 0` for an optional array.
nonEmptyArray(a) == a # {} /\ Len(CHOOSE v \in a : TRUE) > 0

theArray(a) == CHOOSE v \in a : TRUE

max(a, b) == IF a >= b THEN a ELSE b
min(a, b) == IF a <= b THEN a ELSE b

\* ------------------------------------------------------------------- dates
\* the start date left at its time of day
startOfDay_identity(dt) == dt

\* startDate.setHours(0, 0, 0, 0)
startOfDay(dt) == [day |-> dt.day, ms |-> 0]

\* Date.prototype.getDay: 0 = Sunday; the epoch day was a Thursday.
getDay(dt) == (dt.day + 4) % 7

weekdayNames ==
  << <<"s", "u", "n", "d", "a", "y">>,
     <<"m", "o", "n", "d", "a", "y">>,
     <<"t", "u", "e", "s", "d", "a", "y">>,
     <<"w", "e", "d", "n", "e", "s", "d", "a", "y">>,
     <<"t", "h", "u", "r", "s", "d", "a", "y">>,
     <<"f", "r", "i", "d", "a", "y">>,
     <<"s", "a", "t", "u", "r", "d", "a", "y">> >>

\* Math.floor((date.getTime() - startDate.getTime()) / (1000*60*60*24))
\* with getTime() = day * MsPerDay + ms on both sides
daysDiffOf(date, cur) ==
  LET startDate == startOfDay(cur)
  IN (date.day - startDate.day) + ((date.ms - startDate.ms) \div MsPerDay)

\* ------------------------------------------------------- schedule results
null == [isNull |-> TRUE]

\* ------------------------------------------------------ timesForFrequency
digits == <<"0", "1", "2", "3", "4", "5", "6", "7", "8", "9">>

RECURSIVE String(_)
String(n) == IF n < 10 THEN digits[n + 1] ELSE String(n \div 10) \o digits[(n % 10) + 1]

\* String(h).padStart(2, '0') for a non-negative whole hour
padStart2(n) == IF n < 10 THEN "0" \o String(n) ELSE String(n)

\* roundedHour with Math.floor for Math.round
roundedHour_floor(frequency, i) ==
  (8 * (frequency - 1) + (20 - 8) * i) \div (frequency - 1)

\* Math.round(startHour + (span / (frequency - 1)) * i), frequency > 4
roundedHour(frequency, i) ==
  ((2 * 8 + 1) * (frequency - 1) + 2 * (20 - 8) * i) \div (2 * (frequency - 1))

\* timesForFrequency spreading the doses over 08:00-14:00
timesForFrequency_halfSpan(frequency) ==
  IF frequency <= 0 THEN <<>>
  ELSE IF frequency = 1 THEN <<"08:00">>
  ELSE IF frequency = 2 THEN <<"08:00", "20:00">>
  ELSE IF frequency = 3 THEN <<"08:00", "14:00", "20:00">>
  ELSE IF frequency = 4 THEN <<"08:00", "12:00", "16:00", "20:00">>
  ELSE [j \in 1..frequency |->
          padStart2(((2 * 8 + 1) * (frequency - 1) + 2 * (14 - 8) * (j - 1))
                      \div (2 * (frequency - 1))) \o ":00"]

timesForFrequency(frequency) ==
  IF frequency <= 0 THEN <<>>
  ELSE IF frequency = 1 THEN <<"08:00">>
  ELSE IF frequency = 2 THEN <<"08:00", "20:00">>
  ELSE IF frequency = 3 THEN <<"08:00", "14:00", "20:00">>
  ELSE IF frequency = 4 THEN <<"08:00", "12:00", "16:00", "20:00">>
  ELSE [j \in 1..frequency |-> padStart2(roundedHour(frequency, j - 1)) \o ":00"]

\* ---------------------------------------------------------- categoryToTime
\* categoryToTime with the "bed" test ahead of the "even"/"night" test
categoryToTime_bedFirst(cat) ==
  LET c == toLowerCase(cat) IN
  IF includes(c, s_morn) THEN {"08:00"}
  ELSE IF includes(c, s_noon) \/ includes(c, s_afternoon) THEN {"14:00"}
  ELSE IF includes(c, s_bed) \/ includes(c, s_bedtime) THEN {"22:00"}
  ELSE IF includes(c, s_even) \/ includes(c, s_night) THEN {"20:00"}
  ELSE {}

\* Returns {} for null, {t} for a clock time.
categoryToTime(cat) ==
  LET c == toLowerCase(cat) IN
  IF includes(c, s_morn) THEN {"08:00"}
  ELSE IF includes(c, s_noon) \/ includes(c, s_afternoon) THEN {"14:00"}
  ELSE IF includes(c, s_even) \/ includes(c, s_night) THEN {"20:00"}
  ELSE IF includes(c, s_bed) \/ includes(c, s_bedtime) THEN {"22:00"}
  ELSE {}

\* timing.timeCategories.map(categoryToTime).filter((t) => !!t)
mappedTimes(timeCategories) ==
  LET all == [i \in 1..Len(timeCategories) |-> categoryToTime(timeCategories[i])]
      kept == SelectSeq(all, LAMBDA t : t # {})
  IN [i \in 1..Len(kept) |-> CHOOSE v \in kept[i] : TRUE]

\* ------------------------------------------------------- the phase window
\* const durationDays = timing.duration || 0
durationDays(timing) == orNumber(timing.duration, 0)

\* skipsTiming with the window end taken inclusive (`>` for `>=`)
skipsTiming_inclusiveEnd(d, runningOffsetDays, daysDiff) ==
  IF d > 0
  THEN daysDiff < runningOffsetDays \/ daysDiff > runningOffsetDays + d
  ELSE daysDiff < runningOffsetDays

\* skipsTiming without the start test of the open-ended branch
skipsTiming_openFromAnyDay(d, runningOffsetDays, daysDiff) ==
  IF d > 0
  THEN daysDiff < runningOffsetDays \/ daysDiff >= runningOffsetDays + d
  ELSE FALSE

\* TRUE when the loop advances past this timing (the two `continue` branches)
skipsTiming(d, runningOffsetDays, daysDiff) ==
  IF d > 0
  THEN daysDiff < runningOffsetDays \/ daysDiff >= runningOffsetDays + d
  ELSE daysDiff < runningOffsetDays

\* The `for (const timing of med.timingSequence)` loop up to the first timing
\* that is not skipped: idx is its position (0 when the loop runs off the end)
\* and runningOffsetDays the value of the variable at that point.
RECURSIVE timingLoop(_, _, _, _)
timingLoop(timingSequence, i, runningOffsetDays, daysDiff) ==
  IF i > Len(timingSequence)
  THEN [idx |-> 0, runningOffsetDays |-> runningOffsetDays]
  ELSE LET d == durationDays(timingSequence[i]) IN
       IF skipsTiming(d, runningOffsetDays, daysDiff)
       THEN timingLoop(timingSequence, i + 1, runningOffsetDays + d, daysDiff)
       ELSE [idx |-> i, runningOffsetDays |-> runningOffsetDays]

\* ------------------------------------------------- occurrence of a timing
\* weekdayMatches without the toLowerCase of the listed names
weekdayMatches_caseSensitive(timing, date) ==
  arrayIncludes(theArray(timing.weekdays), weekdayNames[getDay(date) + 1])

\* lowered.includes(wdName)
weekdayMatches(timing, date) ==
  LET wdName == weekdayNames[getDay(date) + 1]
      wds == theArray(timing.weekdays)
      lowered == [i \in 1..Len(wds) |-> toLowerCase(wds[i])]
  IN arrayIncludes(lowered, wdName)

\* asNeededSchedule with `??` for `||`: a 0 is kept
asNeededSchedule_nullish(timing) ==
  [asNeeded |-> TRUE,
   max |-> IF timing.frequencyMax # {} THEN CHOOSE v \in timing.frequencyMax : TRUE
           ELSE IF timing.frequency # {} THEN CHOOSE v \in timing.frequency : TRUE
           ELSE 1,
   doseAmount |-> timing.doseAmount,
   doseUnit |-> timing.doseUnit]

\* as-needed (PRN) branch
asNeededSchedule(timing) ==
  LET freq == orNumber(timing.frequency, 1) IN
  [asNeeded |-> TRUE,
   max |-> orNumber(timing.frequencyMax, freq),
   doseAmount |-> timing.doseAmount,
   doseUnit |-> timing.doseUnit]

\* dayGateOpen counting the days from the regimen start
dayGateOpen_fromRegimenStart(period, daysDiff, runningOffsetDays) ==
  daysDiff - runningOffsetDays >= 0 /\ daysDiff % max(1, period) = 0

\* offsetDayIndex % everyN !== 0  (periodUnit day) /
\* weekIndex % everyNWeeks !== 0  (periodUnit week)
dayGateOpen(period, daysDiff, runningOffsetDays) ==
  LET offsetDayIndex == daysDiff - runningOffsetDays
      everyN == max(1, period)
  IN offsetDayIndex >= 0 /\ offsetDayIndex % everyN = 0

\* weekGateOpen counting the weeks from the regimen start
weekGateOpen_fromRegimenStart(period, daysDiff, runningOffsetDays) ==
  daysDiff - runningOffsetDays >= 0 /\ (daysDiff \div 7) % max(1, period) = 0

weekGateOpen(period, daysDiff, runningOffsetDays) ==
  LET daysSinceOffset == daysDiff - runningOffsetDays
      weekIndex == daysSinceOffset \div 7
      everyNWeeks == max(1, period)
  IN daysSinceOffset >= 0 /\ weekIndex % everyNWeeks = 0

\* explicit specificTimes branch
explicitSchedule(timing, daysDiff, runningOffsetDays, date) ==
  LET times == theArray(timing.specificTimes)
      period == orNumber(timing.period, 1)
      periodUnit == toLowerCase(orString(timing.periodUnit, s_day))
      gated == [times |-> times, source |-> "explicit",
                timeCategories |-> timing.timeCategories,
                doseAmount |-> timing.doseAmount, doseUnit |-> timing.doseUnit]
  IN
  IF nonEmptyArray(timing.weekdays)
  THEN IF ~weekdayMatches(timing, date) THEN null
       ELSE [times |-> times, source |-> "explicit",
             explicitWeekdays |-> timing.weekdays,
             timeCategories |-> timing.timeCategories,
             doseAmount |-> timing.doseAmount, doseUnit |-> timing.doseUnit]
  ELSE IF startsWith(periodUnit, s_day)
  THEN IF dayGateOpen(period, daysDiff, runningOffsetDays) THEN gated ELSE null
  ELSE IF startsWith(periodUnit, s_week)
  THEN IF weekGateOpen(period, daysDiff, runningOffsetDays) THEN gated ELSE null
  ELSE [times |-> times, source |-> "explicit",
        doseAmount |-> timing.doseAmount, doseUnit |-> timing.doseUnit]

\* timeCategories branch, entered when at least one category maps
categorySchedule(timing, mapped, daysDiff, runningOffsetDays, date) ==
  LET period == orNumber(timing.period, 1)
      periodUnit == toLowerCase(orString(timing.periodUnit, s_day))
      gated == [times |-> mapped, source |-> "explicit",
                timeCategories |-> timing.timeCategories,
                doseAmount |-> timing.doseAmount, doseUnit |-> timing.doseUnit]
  IN
  IF nonEmptyArray(timing.weekdays)
  THEN IF ~weekdayMatches(timing, date) THEN null
       ELSE [times |-> mapped, source |-> "explicit",
             explicitWeekdays |-> timing.weekdays,
             timeCategories |-> timing.timeCategories,
             doseAmount |-> timing.doseAmount, doseUnit |-> timing.doseUnit]
  ELSE IF startsWith(periodUnit, s_day)
  THEN IF dayGateOpen(period, daysDiff, runningOffsetDays) THEN gated ELSE null
  ELSE IF startsWith(periodUnit, s_week)
  THEN IF weekGateOpen(period, daysDiff, runningOffsetDays) THEN gated ELSE null
  ELSE gated

\* chosenWeekdays spreading the doses over five days of the week
chosenWeekdays_workWeek(baseWeekday, freq) ==
  {(baseWeekday + ((2 * i * 5 + freq) \div (2 * freq))) % 7 : i \in 0..(freq - 1)}

\* chosenWeekdays of the weekly calculated branch
chosenWeekdays(baseWeekday, freq) ==
  {(baseWeekday + ((2 * i * 7 + freq) \div (2 * freq))) % 7 : i \in 0..(freq - 1)}

\* calculatedSchedule without the `|| 1` default of the daily branches
calculatedSchedule_noDefault(timing, daysDiff, runningOffsetDays, date, startDate) ==
  LET frequency == max(0, orNumber(timing.frequency, 0))
      period == orNumber(timing.period, 1)
      periodUnit == toLowerCase(orString(timing.periodUnit, s_day))
      daily == [times |-> timesForFrequency(frequency),
                source |-> "calculated",
                doseAmount |-> timing.doseAmount, doseUnit |-> timing.doseUnit]
  IN
  IF startsWith(periodUnit, s_day)
  THEN IF dayGateOpen(period, daysDiff, runningOffsetDays) THEN daily ELSE null
  ELSE IF startsWith(periodUnit, s_week)
  THEN IF ~weekGateOpen(period, daysDiff, runningOffsetDays) THEN null
       ELSE LET freq == min(7, max(1, IF frequency = 0 THEN 1 ELSE frequency)) IN
            IF getDay(date) \notin chosenWeekdays(getDay(startDate), freq) THEN null
            ELSE [times |-> timesForFrequency(freq), source |-> "calculated",
                  doseAmount |-> timing.doseAmount, doseUnit |-> timing.doseUnit]
  ELSE daily

\* calculatedSchedule applying the every-N-days gate to unrecognised units too
calculatedSchedule_gatedFallback(timing, daysDiff, runningOffsetDays, date, startDate) ==
  LET frequency == max(0, orNumber(timing.frequency, 0))
      period == orNumber(timing.period, 1)
      periodUnit == toLowerCase(orString(timing.periodUnit, s_day))
      daily == [times |-> timesForFrequency(IF frequency = 0 THEN 1 ELSE frequency),
                source |-> "calculated",
                doseAmount |-> timing.doseAmount, doseUnit |-> timing.doseUnit]
  IN
  IF startsWith(periodUnit, s_week)
  THEN IF ~weekGateOpen(period, daysDiff, runningOffsetDays) THEN null
       ELSE LET freq == min(7, max(1, IF frequency = 0 THEN 1 ELSE frequency)) IN
            IF getDay(date) \notin chosenWeekdays(getDay(startDate), freq) THEN null
            ELSE [times |-> timesForFrequency(freq), source |-> "calculated",
                  doseAmount |-> timing.doseAmount, doseUnit |-> timing.doseUnit]
  ELSE IF dayGateOpen(period, daysDiff, runningOffsetDays) THEN daily ELSE null

\* frequency/period branch ("calculated")
calculatedSchedule(timing, daysDiff, runningOffsetDays, date, startDate) ==
  LET frequency == max(0, orNumber(timing.frequency, 0))
      period == orNumber(timing.period, 1)
      periodUnit == toLowerCase(orString(timing.periodUnit, s_day))
      daily == [times |-> timesForFrequency(IF frequency = 0 THEN 1 ELSE frequency),
                source |-> "calculated",
                doseAmount |-> timing.doseAmount, doseUnit |-> timing.doseUnit]
  IN
  IF startsWith(periodUnit, s_day)
  THEN IF dayGateOpen(period, daysDiff, runningOffsetDays) THEN daily ELSE null
  ELSE IF startsWith(periodUnit, s_week)
  THEN IF ~weekGateOpen(period, daysDiff, runningOffsetDays) THEN null
       ELSE LET freq == min(7, max(1, IF frequency = 0 THEN 1 ELSE frequency)) IN
            IF getDay(date) \notin chosenWeekdays(getDay(startDate), freq) THEN null
            ELSE [times |-> timesForFrequency(freq), source |-> "calculated",
                  doseAmount |-> timing.doseAmount, doseUnit |-> timing.doseUnit]
  ELSE daily

\* timingSchedule with the explicit-times test ahead of the as-needed test
timingSchedule_explicitFirst(timing, daysDiff, runningOffsetDays, date, startDate) ==
  IF nonEmptyArray(timing.specificTimes)
  THEN explicitSchedule(timing, daysDiff, runningOffsetDays, date)
  ELSE IF timing.isAsNeeded THEN asNeededSchedule(timing)
  ELSE calculatedSchedule(timing, daysDiff, runningOffsetDays, date, startDate)

\* Body of the loop for the timing whose window holds the date.
timingSchedule(timing, daysDiff, runningOffsetDays, date, startDate) ==
  IF timing.isAsNeeded THEN asNeededSchedule(timing)
  ELSE IF nonEmptyArray(timing.specificTimes)
  THEN explicitSchedule(timing, daysDiff, runningOffsetDays, date)
  ELSE IF nonEmptyArray(timing.timeCategories)
          /\ mappedTimes(theArray(timing.timeCategories)) # <<>>
  THEN categorySchedule(timing, mappedTimes(theArray(timing.timeCategories)),
                        daysDiff, runningOffsetDays, date)
  ELSE calculatedSchedule(timing, daysDiff, runningOffsetDays, date, startDate)

\* getMedicationSchedule trying the next timing when the matching one is gated
getMedicationSchedule_fallThrough(m, d, cur) ==
  LET startDate == startOfDay(cur)
      daysDiff == daysDiffOf(d, cur)
      hit == timingLoop(m.timingSequence, 1, 0, daysDiff)
      first == IF hit.idx = 0 THEN null
               ELSE timingSchedule(m.timingSequence[hit.idx], daysDiff,
                                   hit.runningOffsetDays, d, startDate)
  IN IF hit.idx # 0 /\ first = null /\ hit.idx < Len(m.timingSequence)
     THEN timingSchedule(m.timingSequence[hit.idx + 1], daysDiff,
                         hit.runningOffsetDays + durationDays(m.timingSequence[hit.idx]),
                         d, startDate)
     ELSE first

\* getMedicationSchedule(med, date), with currentDate the component state
getMedicationSchedule(m, d, cur) ==
  LET startDate == startOfDay(cur)
      daysDiff == daysDiffOf(d, cur)
      hit == timingLoop(m.timingSequence, 1, 0, daysDiff)
  IN IF hit.idx = 0 THEN null
     ELSE timingSchedule(m.timingSequence[hit.idx], daysDiff,
                         hit.runningOffsetDays, d, startDate)

\* ------------------------------------------------------------------ inputs
\* A Timing of types.ts; the fields the projector never reads (orderInSequence,
\* periodMax, count, rawText) are left out.
Timing(duration, durationUnit, frequency, frequencyMax, period, periodUnit, isAsNeeded, specificTimes, timeCategories, weekdays) ==
  [doseAmount |-> 1, doseUnit |-> {},
   frequency |-> frequency, frequencyMax |-> frequencyMax,
   period |-> period, periodUnit |-> periodUnit,
   duration |-> duration, durationUnit |-> durationUnit,
   isAsNeeded |-> isAsNeeded,
   specificTimes |-> specificTimes, timeCategories |-> timeCategories,
   weekdays |-> weekdays]

Durations == {{}} \cup {{n} : n \in 0..MaxDuration}

\* Phases that come first in a regimen: once a day, with every kind of window
\* (open-ended, zero, 1..MaxDuration days, one week).
LeadTimings ==
  {Timing(d, {}, {1}, {}, {1}, {s_day}, FALSE, {}, {}, {}) : d \in Durations}
  \cup {Timing({1}, {s_weeks}, {1}, {}, {1}, {s_day}, FALSE, {}, {}, {})}

\* As-needed phases: every frequency / frequencyMax combination, alone and
\* together with the fields that gate a scheduled phase.
AsNeededTimings ==
  {Timing(d, {}, f, fm, g[1], g[2], TRUE, g[3], g[4], g[5]) :
     d \in {{}, {MaxDuration}},
     f \in {{}, {0}, {2}}, fm \in {{}, {0}, {3}},
     g \in {<<{}, {}, {}, {}, {}>>,
            <<{}, {}, {<<"09:00", "21:00">>}, {}, {<<s_Monday, s_thursday>>}>>,
            <<{2}, {s_week}, {}, {<<s_Morning>>}, {}>>}}

\* Scheduled phases: explicit times, time categories or neither, with and
\* without weekdays, period and the four kinds of periodUnit.
ScheduledTimings ==
  {Timing(d, {}, f, {}, p, pu, FALSE, tm[1], tm[2], wd) :
     d \in {{}, {MaxDuration}},
     f \in {{}, {2}},
     p \in {{}, {2}},
     pu \in {{}, {s_Days}, {s_week}, {s_hour}},
     tm \in {<<{}, {}>>, <<{<<"09:00", "21:00">>}, {}>>,
             <<{}, {<<s_withFood, s_Morning>>}>>},
     wd \in {{}, {<<s_Monday, s_thursday>>}}}

\* Scheduled phases without explicit times (absent or an empty list) whose
\* time categories map in part, in full or not at all, under every gate.
CategoryTimings ==
  {Timing({}, {}, {2}, {}, g[1], g[2], FALSE, st, {tc}, wd) :
     st \in {{}, {<< >>}},
     tc \in {<<s_withFood>>,
             <<s_Night, s_withFood, s_Morning>>,
             <<s_Afternoon, s_Bedtime>>,
             <<s_Noon, s_eveningBeforeBed>>},
     g \in {<<{}, {}>>, <<{2}, {s_Days}>>, <<{2}, {s_week}>>, <<{2}, {s_hour}>>},
     wd \in {{}, {<<s_Monday, s_thursday>>}}}

\* Open-ended phases taken every day, of every frequency up to MaxFrequency.
FrequencyTimings ==
  {Timing({}, {}, f, {}, {1}, {s_day}, FALSE, {}, {}, {}) :
     f \in {{}} \cup {{n} : n \in 0..MaxFrequency}}

\* Calculated phases whose periodUnit is neither days nor weeks.
OtherUnitTimings ==
  {Timing(d, {}, f, {}, p, {pu}, FALSE, {}, {}, {}) :
     d \in {{}, {MaxDuration}},
     f \in {{}, {0}, {3}, {5}},
     p \in {{}, {2}, {3}},
     pu \in {s_hour, s_month}}

LastTimings ==
  LeadTimings \cup AsNeededTimings \cup ScheduledTimings \cup CategoryTimings
  \cup FrequencyTimings \cup OtherUnitTimings

\* Phase i of a regimen carries dose i ("2 tablets, then 1"), and every other
\* phase names its unit, so a result shows the phase it was computed from.
withDose(seq) ==
  [i \in 1..Len(seq) |->
     [seq[i] EXCEPT !.doseAmount = i,
                    !.doseUnit = IF i % 2 = 1 THEN {"mg"} ELSE {}]]

\* phase A: once a day for 7 days; phase B: twice a day from then on
PhaseA == Timing({7}, {}, {1}, {}, {1}, {s_day}, FALSE, {}, {}, {})
PhaseB == Timing({}, {}, {2}, {}, {1}, {s_day}, FALSE, {}, {}, {})

\* Malformed regimens: an open-ended phase that is gated (by weekdays, by an
\* every-other-day or every-other-week period), with a phase placed after it.
GatedOpenTimings ==
  {Timing({}, {}, {1}, {}, {}, {}, FALSE, {<<"09:00", "21:00">>}, {}, {<<s_Monday, s_thursday>>}),
   Timing({}, {}, {1}, {}, {2}, {s_day}, FALSE, {}, {}, {}),
   Timing({}, {}, {1}, {}, {2}, {s_week}, FALSE, {}, {}, {}),
   Timing({}, {}, {1}, {}, {2}, {s_Days}, FALSE, {}, {<<s_Night>>}, {})}

UnreachableSequences ==
  {withDose(<<g, l>>) :
     g \in GatedOpenTimings,
     l \in {PhaseB,
            Timing({}, {}, {2}, {3}, {}, {}, TRUE, {}, {}, {}),
            Timing({MaxDuration}, {}, {1}, {}, {1}, {s_day}, FALSE, {}, {}, {})}}

\* The regimens: the empty one, the two-phase example, any last phase alone or
\* after one lead phase, and up to MaxPhases phases whose last one is a lead
\* phase or a gated open-ended one.
TimingSequences ==
  {<< >>, withDose(<<PhaseA, PhaseB>>)}
  \cup UnreachableSequences
  \cup UNION {{withDose(lead \o <<last>>) :
                 lead \in [1..n -> LeadTimings], last \in LastTimings} :
              n \in 0..min(MaxPhases - 1, 1)}
  \cup UNION {{withDose(lead \o <<last>>) :
                 lead \in [1..n -> LeadTimings],
                 last \in LeadTimings \cup GatedOpenTimings} :
              n \in 0..(MaxPhases - 1)}

Medications == {[timingSequence |-> ts] : ts \in TimingSequences}

\* new Date() when the component mounts: a day and a time of day
CurrentDates == {[day |-> d, ms |-> t] : d \in 2..MaxStartDay, t \in {0, 48600000}}

\* the dates of the calendar cells (midnights)
CalendarDates == {[day |-> d, ms |-> 0] : d \in 0..MaxDay}

\* ------------------------------------------------------------ state machine
VARIABLES
  med,          \* the MedicationStatement being projected
  currentDate,  \* useState<Date>(new Date())
  date,         \* argument of the last getMedicationSchedule call
  schedule      \* its result; [called |-> FALSE] before the first call

\* the useLLM hook and the chat of the component
VARIABLES
  isLoading,               \* useState(false)
  error,                   \* useState<Error | null>(null)
  response,                \* useState<MedicationData | null>(null): medications
  messages,                \* useState<Message[]>([greeting])
  inputValue,              \* useState<string>('')
  notifyMedicationChange,  \* useState(false)
  calls                    \* the sendPrompt calls made so far, in order

\* FHIRDiseaseProgressionGenerator: its context and the walk of processGraph
VARIABLES
  graph,         \* graph.nodes of the GraphJSON given to processGraph
  attributes,    \* context.attributes
  resources,     \* context.resources
  visitedNodes,  \* context.visitedNodes
  processed,     \* the node names logged by processNode ("Processing node: ...")
  rand,          \* the last value of Math.random(), in hundredths
  walk           \* where processGraph is: idle, at a processNode call, returned, threw

calendarVars == <<med, currentDate, date, schedule>>

hookVars ==
  <<isLoading, error, response, messages, inputValue, notifyMedicationChange, calls>>

\* the HTTP server of services/fhir-generator
VARIABLES
  server,          \* the http.Server: listening, closing, closed
  connections,     \* open connections: idle ones and ones with a request in progress
  closeListeners,  \* callbacks given to server.close, waiting for 'close'
  timers,          \* force-shutdown timers that are set and have not fired
  signals,         \* the signals handled so far, as logged
  exitCode         \* {} while the process runs, {code} after process.exit(code)

serverVars == <<server, connections, closeListeners, timers, signals, exitCode>>

generatorVars == <<graph, attributes, resources, visitedNodes, processed, rand, walk>>

otherVars == <<hookVars, generatorVars, serverVars>>

vars == <<calendarVars, otherVars>>

s_greeting ==
  "Hi! I can help you manage your medication schedule. Can you tell me what medications you're taking?"

\* the state of the hook and of the chat when the component mounts
InitHook ==
  /\ isLoading = FALSE
  /\ error = null
  /\ response = null
  /\ messages = <<[role |-> "assistant", text |-> s_greeting]>>
  /\ inputValue = ""
  /\ notifyMedicationChange = FALSE
  /\ calls = << >>

undefined == [isUndefined |-> TRUE]

AttributeNames == {"current_encounter", "cond"}

\* the context made by the constructor, before a graph is given
InitContext ==
  /\ attributes = [a \in AttributeNames |-> undefined]
  /\ resources = << >>
  /\ visitedNodes = {}
  /\ processed = << >>
  /\ rand = 0
  /\ walk = [state |-> "idle"]

\* a generator that is constructed and never given a graph
InitGeneratorUnused == graph = << >> /\ InitContext

\* the server after app.listen
InitServer ==
  /\ server = "listening"
  /\ connections = [idle |-> 0, active |-> 0]
  /\ closeListeners = 0
  /\ timers = 0
  /\ signals = << >>
  /\ exitCode = {}

\* everything outside the calendar, in its initial state
InitOthers == InitHook /\ InitGeneratorUnused /\ InitServer

Init ==
  /\ med \in Medications
  /\ currentDate \in CurrentDates
  /\ date = [day |-> 0, ms |-> 0]
  /\ schedule = [called |-> FALSE]
  /\ InitOthers

\* getDayMedications(d) for the medication: one getMedicationSchedule call
GetDayMedications(d) ==
  /\ date' = d
  /\ schedule' = getMedicationSchedule(med, d, currentDate)
  /\ UNCHANGED <<med, currentDate, otherVars>>

Next == \E d \in CalendarDates : GetDayMedications(d)

Spec == Init /\ [][Next]_vars

\* ---------------------------------------------------------- weekly regimens
\* Calculated phases taken some days of the week, every week or every other
\* week, alone or behind a once-a-day phase of 1..MaxDuration days; the
\* component mounts on each day of a week and three weeks are projected.
WeeklyTimings ==
  {Timing({}, {}, f, {}, p, {s_week}, FALSE, {}, {}, {}) :
     f \in {{}} \cup {{n} : n \in 0..MaxWeeklyFrequency},
     p \in {{}, {1}, {2}}}

WeeklySequences ==
  {withDose(<<w>>) : w \in WeeklyTimings}
  \cup {withDose(<<Timing({n}, {}, {1}, {}, {1}, {s_day}, FALSE, {}, {}, {}), w>>) :
          n \in 1..MaxDuration, w \in WeeklyTimings}

WeeklyCurrentDates == {[day |-> d, ms |-> 48600000] : d \in 0..6}

WeeklyCalendarDates == {[day |-> d, ms |-> 0] : d \in 0..MaxWeeklyDay}

InitWeekly ==
  /\ med \in {[timingSequence |-> w] : w \in WeeklySequences}
  /\ currentDate \in WeeklyCurrentDates
  /\ date = [day |-> 0, ms |-> 0]
  /\ schedule = [called |-> FALSE]
  /\ InitOthers

NextWeekly == \E d \in WeeklyCalendarDates : GetDayMedications(d)

SpecWeekly == InitWeekly /\ [][NextWeekly]_vars

\* ------------------------------------------------------ calendar navigation
\* Day number (since the epoch) of the first day of month m, m counted from
\* January 1970: October 1969 .. June 1970 (1970 is not a leap year).
firstOfMonth(m) ==
  CASE m = -3 -> -92 [] m = -2 -> -61 [] m = -1 -> -31
    [] m = 0 -> 0 [] m = 1 -> 31 [] m = 2 -> 59
    [] m = 3 -> 90 [] m = 4 -> 120 [] m = 5 -> 151

\* Date.prototype.getMonth, as a month count from January 1970
getMonth(dt) == CHOOSE m \in -3..4 : firstOfMonth(m) <= dt.day /\ dt.day < firstOfMonth(m + 1)

\* Date.prototype.getDate: the day of the month
getDate(dt) == dt.day - firstOfMonth(getMonth(dt)) + 1

\* Date.prototype.setMonth: same day of the month and time of day, a day past
\* the end of the month running into the next one
setMonth(dt, m) == [day |-> firstOfMonth(m) + getDate(dt) - 1, ms |-> dt.ms]

\* generateCalendarDays(): the days of the week before the first of the month
\* of currentDate, then the days of that month, all at midnight
generateCalendarDays(cur) ==
  LET m == getMonth(cur)
      start == [day |-> firstOfMonth(m), ms |-> 0]
      firstDay == getDay(start)
  IN {[day |-> d, ms |-> 0] : d \in (start.day - firstDay)..(firstOfMonth(m + 1) - 1)}

\* navigateMonth(direction), direction = 1 or -1 (the two arrow buttons)
NavigateMonth(direction) ==
  /\ getMonth(currentDate) + direction \in (-MaxNavigate)..MaxNavigate
  /\ currentDate' = setMonth(currentDate, getMonth(currentDate) + direction)
  /\ UNCHANGED <<med, date, schedule, otherVars>>

\* one rendering of the month grid: a getDayMedications call for a cell
RenderDay == \E d \in generateCalendarDays(currentDate) : GetDayMedications(d)

NavigateMedications ==
  {[timingSequence |-> withDose(<<PhaseA, PhaseB>>)],
   [timingSequence |-> withDose(<<PhaseB>>)],
   [timingSequence |-> withDose(<<Timing({}, {}, {2}, {3}, {}, {}, TRUE, {}, {}, {})>>)]}

InitNavigate ==
  /\ med \in NavigateMedications
  /\ currentDate \in CurrentDates
  /\ date = [day |-> 0, ms |-> 0]
  /\ schedule = [called |-> FALSE]
  /\ InitOthers

NextNavigate ==
  \/ RenderDay
  \/ \E direction \in {-1, 1} : NavigateMonth(direction)

SpecNavigate == InitNavigate /\ [][NextNavigate]_vars

\* ------------------------------------------------- target dates with a time
\* getMedicationSchedule applied to dates at any time of day: midnight, 07:30
\* and the last millisecond of the day.
TimesOfDay == {0, 27000000, MsPerDay - 1}

TimedDates == {[day |-> d, ms |-> t] : d \in 0..MaxDay, t \in TimesOfDay}

TimedMedications ==
  NavigateMedications \cup
  {[timingSequence |-> withDose(<<Timing({}, {}, {1}, {}, {1}, {s_week}, FALSE, {}, {}, {})>>)],
   [timingSequence |->
      withDose(<<Timing({}, {}, {}, {}, {}, {}, FALSE, {<<"09:00", "21:00">>}, {}, {<<s_Monday, s_thursday>>})>>)]}

InitTimed ==
  /\ med \in TimedMedications
  /\ currentDate \in CurrentDates
  /\ date = [day |-> 0, ms |-> 0]
  /\ schedule = [called |-> FALSE]
  /\ InitOthers

NextTimed == \E d \in TimedDates : GetDayMedications(d)

SpecTimed == InitTimed /\ [][NextTimed]_vars

\* ------------------------------------------------- the useLLM hook and chat
s_thinking == "Just a second while I think of how to put that on your calendar!"

s_added ==
  "Alrighty! I've added your meds to the calendar. Did you have any others to add?"

\* what the user types: nothing, blanks, and two instructions
InputValues == {"", "  ", "aspirin daily", " stop aspirin "}

\* String.prototype.trim on the typed values
trim(str) ==
  CASE str = "  " -> ""
    [] str = " stop aspirin " -> "stop aspirin"
    [] OTHER -> str

\* Array.prototype.join('\n')
RECURSIVE join(_)
join(texts) ==
  IF texts = << >> THEN ""
  ELSE IF Len(texts) = 1 THEN texts[1]
  ELSE texts[1] \o "\n" \o join(Tail(texts))

\* messages.filter((m) => m.role === 'user').map((m) => m.text)
RECURSIVE userTexts(_)
userTexts(msgs) ==
  IF msgs = << >> THEN << >>
  ELSE (IF msgs[1].role = "user" THEN <<msgs[1].text>> ELSE << >>)
       \o userTexts(Tail(msgs))

\* the MedicationData values the service answers with
MedicationDatas ==
  {[medicationStatements |-> << >>, freeTextResponse |-> "Which medication?"],
   [medicationStatements |-> <<[timingSequence |-> withDose(<<PhaseB>>)]>>,
    freeTextResponse |-> ""],
   [medicationStatements |->
      <<[timingSequence |-> withDose(<<PhaseB>>)],
        [timingSequence |-> withDose(<<PhaseA, PhaseB>>)]>>,
    freeTextResponse |-> "Added aspirin."]}

\* response.text: absent, empty, text that is not JSON, or the JSON text of a
\* MedicationData (kept with the value it denotes)
ResponseTexts ==
  {{}, {[json |-> FALSE, text |-> ""]}, {[json |-> FALSE, text |-> "I'm sorry"]}}
  \cup {{[json |-> TRUE, text |-> "{...}", value |-> d]} : d \in MedicationDatas}

\* how ai.models.generateContent settles
GenerateContentOutcomes ==
  {[kind |-> "throws", err |-> [name |-> "TypeError", message |-> "fetch failed"]]}
  \cup {[kind |-> "resolves", text |-> t] : t \in ResponseTexts}

\* JSON.parse(response.text)
JSONparse(t) ==
  IF t.json THEN [threw |-> FALSE, value |-> t.value]
  ELSE [threw |-> TRUE,
        err |-> [name |-> "SyntaxError", message |-> "Unexpected token"]]

\* `${err}`
errorToString(err) == err.name \o ": " \o err.message

\* setResponse keeping the statements held so far
setResponse_merge(prev, data) ==
  IF prev = null THEN data
  ELSE [data EXCEPT !.medicationStatements = prev.medicationStatements \o @]

\* setResponse(data)
setResponse(prev, data) == data

\* the try block of sendPrompt after the await: what it threw, or the data
\* it parsed ({} when response.text is falsy and nothing is returned)
afterAwait(o) ==
  IF o.kind = "throws" THEN [threw |-> TRUE, err |-> o.err]
  ELSE IF o.text = {} \/ (CHOOSE t \in o.text : TRUE).text = ""
  THEN [threw |-> FALSE, data |-> {}]
  ELSE LET parsed == JSONparse(CHOOSE t \in o.text : TRUE)
       IN IF parsed.threw THEN [threw |-> TRUE, err |-> parsed.err]
          ELSE [threw |-> FALSE, data |-> {parsed.value}]

\* response?.data.freeTextResponse || s_added
replyText(data) ==
  IF data = {} THEN s_added
  ELSE LET d == CHOOSE d \in data : TRUE
       IN IF d.freeTextResponse = "" THEN s_added ELSE d.freeTextResponse

\* onChange of the text field
SetInputValue(v) ==
  /\ inputValue' = v
  /\ UNCHANGED <<isLoading, error, response, messages, notifyMedicationChange, calls>>
  /\ UNCHANGED <<calendarVars, generatorVars, serverVars>>

\* handleSendMessage up to the await inside sendPrompt (Send button or Enter)
HandleSendMessage ==
  /\ trim(inputValue) # ""
  /\ Len(calls) < MaxCalls
  /\ messages' = messages \o <<[role |-> "user", text |-> inputValue],
                                [role |-> "assistant", text |-> s_thinking]>>
  /\ inputValue' = ""
  /\ calls' = Append(calls, [prompt |-> join(userTexts(messages) \o <<inputValue>>),
                             promise |-> "pending", outcome |-> {}])
  /\ isLoading' = TRUE
  /\ error' = null
  /\ UNCHANGED <<response, notifyMedicationChange>>
  /\ UNCHANGED <<calendarVars, generatorVars, serverVars>>

\* generateContent of call i settles with outcome o: the rest of sendPrompt
\* (try, catch, finally) and the then/catch callback of handleSendMessage
GenerateContentSettles(i, o) ==
  /\ i \in 1..Len(calls)
  /\ calls[i].promise = "pending"
  /\ LET r == afterAwait(o) IN
     /\ response' = IF ~r.threw /\ r.data # {}
                     THEN setResponse(response, CHOOSE d \in r.data : TRUE)
                     ELSE response
     /\ notifyMedicationChange' =
          IF ~r.threw /\ r.data # {} THEN TRUE ELSE notifyMedicationChange
     /\ error' = IF r.threw THEN r.err ELSE error
     /\ isLoading' = FALSE
     /\ calls' = [calls EXCEPT ![i].outcome = {o},
                               ![i].promise = IF r.threw THEN "rejected" ELSE "fulfilled"]
     /\ messages' = Append(messages,
                           [role |-> "assistant",
                            text |-> IF r.threw THEN errorToString(r.err)
                                     ELSE replyText(r.data)])
  /\ UNCHANGED inputValue
  /\ UNCHANGED <<calendarVars, generatorVars, serverVars>>

\* onClose of the snackbar
HandleDismissMedChange ==
  /\ notifyMedicationChange
  /\ notifyMedicationChange' = FALSE
  /\ UNCHANGED <<isLoading, error, response, messages, inputValue, calls>>
  /\ UNCHANGED <<calendarVars, generatorVars, serverVars>>

\* getDayMedications(d): the getMedicationSchedule call for held statement i
GetHeldDayMedications(i, d) ==
  /\ response # null
  /\ i \in 1..Len(response.medicationStatements)
  /\ med' = response.medicationStatements[i]
  /\ date' = d
  /\ schedule' = getMedicationSchedule(response.medicationStatements[i], d, currentDate)
  /\ UNCHANGED <<currentDate, otherVars>>

InitChat ==
  /\ med = [timingSequence |-> << >>]
  /\ currentDate = [day |-> 2, ms |-> 48600000]
  /\ date = [day |-> 0, ms |-> 0]
  /\ schedule = [called |-> FALSE]
  /\ InitOthers

NextChat ==
  \/ \E v \in InputValues : SetInputValue(v)
  \/ HandleSendMessage
  \/ \E i \in 1..MaxCalls, o \in GenerateContentOutcomes : GenerateContentSettles(i, o)
  \/ HandleDismissMedChange
  \/ \E i \in 1..2 : GetHeldDayMedications(i, [day |-> 9, ms |-> 0])

SpecChat == InitChat /\ [][NextChat]_vars

\* ------------------------------------- FHIRDiseaseProgressionGenerator
\* A GraphNode: its type, its transitions and the fields the handlers read;
\* an optional field is {} when absent.
plainNode(type) ==
  [type |-> type, direct_transition |-> {}, conditional_transition |-> {},
   distributed_transition |-> {}, attribute |-> {}, value |-> {},
   target_encounter |-> {}, assign_to_attribute |-> {}, reason |-> {},
   referenced_by_attribute |-> {}, submodule |-> {}]

valueOf(opt) == CHOOSE v \in opt : TRUE

\* this.context.attributes[name], name an optional field of the node
attributeOf(attrs, name) ==
  IF name = {} \/ valueOf(name) \notin DOMAIN attrs THEN undefined
  ELSE attrs[valueOf(name)]

\* `Encounter/${id}`, `Condition/${id}`
reference(type, id) == [type |-> type, id |-> id]

\* a resource as the handlers build it; ended stands for abatementDateTime,
\* period.end and the statuses 'stopped' and 'completed'
newResource(type, id, encounter, reasonReference, addresses) ==
  [resourceType |-> type, id |-> id, encounter |-> encounter,
   reasonReference |-> reasonReference, addresses |-> addresses, ended |-> FALSE]

\* randomUUID(): an id no earlier resource has
randomUUID(res) == [uuid |-> Len(res) + 1]

\* resources.find(r => r.resourceType === type && r.id === id), then the
\* assignment that ends the resource found
endResource(res, type, id) ==
  IF id = undefined THEN res
  ELSE [k \in 1..Len(res) |->
          IF res[k].resourceType = type /\ res[k].id = id
             /\ \A j \in 1..(k - 1) : ~(res[j].resourceType = type /\ res[j].id = id)
          THEN [res[k] EXCEPT !.ended = TRUE] ELSE res[k]]

\* if (node.reason && attributes[node.reason]) -> Condition reference
reasonOf(node, attrs) ==
  IF node.reason # {} /\ attributeOf(attrs, node.reason) # undefined
  THEN {reference("Condition", attributeOf(attrs, node.reason))} ELSE {}

\* if (attributes['current_encounter']) -> Encounter reference
currentEncounterOf(attrs) ==
  IF attrs["current_encounter"] # undefined
  THEN {reference("Encounter", attrs["current_encounter"])} ELSE {}

\* node.submodule.split('/').pop() || fallback, the path kept as its segments
lastSegment(path, fallback) ==
  IF path = << >> \/ path[Len(path)] = "" THEN fallback ELSE path[Len(path)]

assign(attrs, name, v) ==
  IF name = {} THEN attrs
  ELSE [a \in DOMAIN attrs \cup {valueOf(name)} |-> IF a = valueOf(name) THEN v ELSE attrs[a]]

\* the handler of the node's type, up to its followTransition call: the
\* attributes and resources it leaves
handleNode(node, attrs, res) ==
  LET id == randomUUID(res)
      same == [attributes |-> attrs, resources |-> res]
  IN
  CASE node.type = "ConditionOnset" ->
         [attributes |-> assign(attrs, node.assign_to_attribute, id),
          resources |->
            Append(res, newResource("Condition", id,
              IF node.target_encounter # {}
                 /\ attributeOf(attrs, node.target_encounter) # undefined
              THEN {reference("Encounter", attributeOf(attrs, node.target_encounter))}
              ELSE {}, {}, {}))]
    [] node.type = "ConditionEnd" ->
         [attributes |-> attrs,
          resources |-> endResource(res, "Condition",
                                    attributeOf(attrs, node.referenced_by_attribute))]
    [] node.type = "Encounter" ->
         [attributes |-> assign(attrs, {"current_encounter"}, id),
          resources |->
            Append(res, newResource("Encounter", id, {}, reasonOf(node, attrs), {}))]
    [] node.type = "EncounterEnd" ->
         [attributes |-> assign(attrs, {"current_encounter"}, undefined),
          resources |-> endResource(res, "Encounter", attrs["current_encounter"])]
    [] node.type = "Procedure" ->
         [attributes |-> attrs,
          resources |->
            Append(res, newResource("Procedure", id, currentEncounterOf(attrs),
                                    reasonOf(node, attrs), {}))]
    [] node.type = "MedicationEnd" ->
         [attributes |-> attrs,
          resources |-> endResource(res, "MedicationRequest",
                                    attributeOf(attrs, node.referenced_by_attribute))]
    [] node.type = "CarePlanStart" ->
         [attributes |-> assign(attrs, node.assign_to_attribute, id),
          resources |->
            Append(res, newResource("CarePlan", id, {}, {}, reasonOf(node, attrs)))]
    [] node.type = "CarePlanEnd" ->
         [attributes |-> attrs,
          resources |-> endResource(res, "CarePlan",
                                    attributeOf(attrs, node.referenced_by_attribute))]
    [] node.type = "SetAttribute" ->
         [attributes |-> assign(attrs, node.attribute, valueOf(node.value)),
          resources |-> res]
    [] node.type = "CallSubmodule" ->
         [attributes |->
            assign(attrs, {lastSegment(valueOf(node.submodule), "medication")}, id),
          resources |->
            Append(res, newResource("MedicationRequest", id,
                                    currentEncounterOf(attrs), {}, {}))]
    [] OTHER -> same

\* the node types whose case in processNode ends in followTransition
handledTypes ==
  {"Initial", "Delay", "Simple", "ConditionOnset", "ConditionEnd", "Encounter",
   "EncounterEnd", "Procedure", "MedicationEnd", "CarePlanStart", "CarePlanEnd",
   "SetAttribute", "Symptom", "CallSubmodule"}

\* evaluateCondition for the condition types Attribute, And and Or (a
\* condition of any other type is false; Age conditions are not generated)
RECURSIVE evaluateCondition(_, _)
evaluateCondition(condition, attrs) ==
  IF condition.condition_type = "Attribute"
  THEN LET value == attributeOf(attrs, {condition.attribute}) IN
       IF condition.operator = "is not nil" THEN value # undefined
       ELSE IF condition.operator = "==" THEN value = condition.value
       ELSE IF condition.operator = "!=" THEN value # condition.value
       ELSE FALSE
  ELSE IF condition.condition_type = "And"
  THEN \A k \in 1..Len(condition.conditions) :
          evaluateCondition(condition.conditions[k], attrs)
  ELSE IF condition.condition_type = "Or"
  THEN \E k \in 1..Len(condition.conditions) :
          evaluateCondition(condition.conditions[k], attrs)
  ELSE FALSE

\* the loop over node.conditional_transition: the index of the entry it
\* returns at, 0 when it runs to the end
RECURSIVE conditionalLoop(_, _, _)
conditionalLoop(transitions, k, attrs) ==
  IF k > Len(transitions) THEN 0
  ELSE IF transitions[k].condition = {}
          \/ evaluateCondition(valueOf(transitions[k].condition), attrs)
  THEN k
  ELSE conditionalLoop(transitions, k + 1, attrs)

\* the loop over node.distributed_transition with the cumulative sum
RECURSIVE distributedLoop(_, _, _, _)
distributedLoop(transitions, k, cumulative, r) ==
  IF k > Len(transitions) THEN 0
  ELSE IF r < cumulative + transitions[k].distribution THEN k
  ELSE distributedLoop(transitions, k + 1, cumulative + transitions[k].distribution, r)

\* graph.nodes[name], processed when it exists
existingNode(g, name) == IF name \in DOMAIN g THEN {name} ELSE {}

\* followTransition with a missing target skipped instead of ending the walk
followTransition_skipMissing(node, g, attrs, r) ==
  LET c == IF node.conditional_transition = {} THEN 0
           ELSE conditionalLoop(valueOf(node.conditional_transition), 1, attrs)
      d == IF node.distributed_transition = {} THEN 0
           ELSE distributedLoop(valueOf(node.distributed_transition), 1, 0, r)
  IN
  IF node.direct_transition # {} /\ existingNode(g, valueOf(node.direct_transition)) # {}
  THEN existingNode(g, valueOf(node.direct_transition))
  ELSE IF c # 0 /\ existingNode(g, valueOf(node.conditional_transition)[c].transition) # {}
  THEN existingNode(g, valueOf(node.conditional_transition)[c].transition)
  ELSE IF d # 0
  THEN existingNode(g, valueOf(node.distributed_transition)[d].transition)
  ELSE {}

\* followTransition: the name of the node it passes to processNode, if any
followTransition(node, g, attrs, r) ==
  LET c == IF node.conditional_transition = {} THEN 0
           ELSE conditionalLoop(valueOf(node.conditional_transition), 1, attrs)
      d == IF node.distributed_transition = {} THEN 0
           ELSE distributedLoop(valueOf(node.distributed_transition), 1, 0, r)
  IN
  IF node.direct_transition # {}
  THEN existingNode(g, valueOf(node.direct_transition))
  ELSE IF c # 0
  THEN existingNode(g, valueOf(node.conditional_transition)[c].transition)
  ELSE IF d # 0
  THEN existingNode(g, valueOf(node.distributed_transition)[d].transition)
  ELSE {}

\* followTransition reaches Math.random()
drawsRandom(node, attrs) ==
  /\ node.type \in handledTypes
  /\ node.direct_transition = {}
  /\ \/ node.conditional_transition = {}
     \/ conditionalLoop(valueOf(node.conditional_transition), 1, attrs) = 0
  /\ node.distributed_transition # {}

\* Math.random(), in hundredths
Rands == {10, 50, 90}

\* processGraph up to its processNode call
ProcessGraph ==
  /\ walk.state = "idle"
  /\ walk' = IF "Initial" \in DOMAIN graph
             THEN [state |-> "processNode", node |-> "Initial"]
             ELSE [state |-> "threw"]
  /\ UNCHANGED <<graph, attributes, resources, visitedNodes, processed, rand>>
  /\ UNCHANGED <<calendarVars, hookVars, serverVars>>

\* a processNode that handles a node again after a cycle has closed once
alreadyVisited_secondVisit(visited, nodeName) ==
  nodeName \in visited /\ Len(processed) > Cardinality(visited)

\* already visited, that is the test at the head of processNode
alreadyVisited(visited, nodeName) == nodeName \in visited

\* one processNode call: the visited test, the handler of the node's type and
\* its followTransition, up to the next processNode call or the return
ProcessNode ==
  /\ walk.state = "processNode"
  /\ LET nodeName == walk.node
         node == graph[nodeName]
     IN
     IF alreadyVisited(visitedNodes, nodeName)
     THEN /\ walk' = [state |-> "returned"]
          /\ UNCHANGED <<attributes, resources, visitedNodes, processed, rand>>
     ELSE LET after == handleNode(node, attributes, resources) IN
          /\ visitedNodes' = visitedNodes \cup {nodeName}
          /\ processed' = Append(processed, nodeName)
          /\ attributes' = after.attributes
          /\ resources' = after.resources
          /\ \E r \in (IF drawsRandom(node, after.attributes) THEN Rands ELSE {rand}) :
               /\ rand' = r
               /\ LET next == IF node.type \in handledTypes
                              THEN followTransition(node, graph, after.attributes, r)
                              ELSE {}
                  IN walk' = IF next = {} THEN [state |-> "returned"]
                             ELSE [state |-> "processNode", node |-> valueOf(next)]
  /\ UNCHANGED graph
  /\ UNCHANGED <<calendarVars, hookVars, serverVars>>

\* the names of the nodes besides Initial
NodeNames == <<"N1", "N2", "N3", "N4">>

nodeName(k) == IF k = 0 THEN "Initial" ELSE NodeNames[k]

isNotNil(a) == [condition_type |-> "Attribute", attribute |-> a, operator |-> "is not nil"]

\* the transitions of node k: to the next node (the last node names a node
\* that is not in the graph), back to N1 or to Initial, or none
TransitionShapes(k) ==
  LET next == nodeName(k + 1)
      shape(direct, conditional, distributed) ==
        [direct_transition |-> direct, conditional_transition |-> conditional,
         distributed_transition |-> distributed]
  IN
  {shape({next}, {}, {}),
   shape({"N1"}, {}, {}),
   shape({"Nowhere"}, {<<[condition |-> {}, transition |-> next]>>}, {}),
   shape({}, {<<[condition |-> {[condition_type |-> "Or",
                                   conditions |-> <<isNotNil("cond"),
                                                    isNotNil("current_encounter")>>]},
                  transition |-> "N1"],
                 [condition |-> {}, transition |-> next]>>},
             {<<[distribution |-> 100, transition |-> "Initial"]>>}),
   shape({}, {<<[condition |-> {[condition_type |-> "Attribute",
                                   attribute |-> "current_encounter",
                                   operator |-> "==",
                                   value |-> [literal |-> "bogus"]]},
                  transition |-> "Nowhere"]>>},
             {<<[distribution |-> 30, transition |-> next],
                [distribution |-> 30, transition |-> "Initial"]>>}),
   shape({}, {}, {})}

withTransitions(node, shape) ==
  [node EXCEPT !.direct_transition = shape.direct_transition,
               !.conditional_transition = shape.conditional_transition,
               !.distributed_transition = shape.distributed_transition]

\* what a node does: one node of each kind the claims are about
NodeKinds ==
  {plainNode("Simple"),
   [plainNode("SetAttribute") EXCEPT !.attribute = {"current_encounter"},
                                     !.value = {[literal |-> "bogus"]}],
   [plainNode("ConditionOnset") EXCEPT !.target_encounter = {"current_encounter"},
                                       !.assign_to_attribute = {"cond"}],
   [plainNode("ConditionEnd") EXCEPT !.referenced_by_attribute = {"cond"}],
   [plainNode("Encounter") EXCEPT !.reason = {"cond"}],
   plainNode("EncounterEnd"),
   [plainNode("Procedure") EXCEPT !.reason = {"cond"}],
   [plainNode("CarePlanStart") EXCEPT !.reason = {"cond"}],
   [plainNode("CallSubmodule") EXCEPT !.submodule = {<<"medications", "cond">>}],
   plainNode("Terminal"),
   plainNode("Observation")}

\* a node besides Initial: any kind going on to the next node, or a Simple
\* node with any transitions
NodeChoices(k) ==
  {withTransitions(kind, [direct_transition |-> {nodeName(k + 1)},
                          conditional_transition |-> {},
                          distributed_transition |-> {}]) : kind \in NodeKinds}
  \cup {withTransitions(plainNode("Simple"), shape) : shape \in TransitionShapes(k)}

\* the graphs: Initial with any transitions and MaxNodes further nodes, and
\* the same graphs with the Initial node left out
Graphs ==
  LET full ==
        {[n \in {nodeName(k) : k \in 0..MaxNodes} |->
            IF n = "Initial" THEN initial ELSE rest[CHOOSE k \in 1..MaxNodes : NodeNames[k] = n]] :
           initial \in {withTransitions(plainNode("Initial"), shape) :
                          shape \in TransitionShapes(0)},
           rest \in [1..MaxNodes -> UNION {NodeChoices(k) : k \in 1..MaxNodes}]}
  IN {g \in full : \A k \in 1..MaxNodes : g[nodeName(k)] \in NodeChoices(k)}
     \cup {[n \in {nodeName(k) : k \in 1..MaxNodes} |-> plainNode("Simple")]}

InitGenerator ==
  /\ med = [timingSequence |-> << >>]
  /\ currentDate = [day |-> 2, ms |-> 48600000]
  /\ date = [day |-> 0, ms |-> 0]
  /\ schedule = [called |-> FALSE]
  /\ InitHook
  /\ InitServer
  /\ graph \in Graphs
  /\ InitContext

NextGenerator == ProcessGraph \/ ProcessNode

\* the event loop runs every continuation that is ready
SpecGenerator == InitGenerator /\ [][NextGenerator]_vars /\ WF_vars(NextGenerator)

\* ------------------------------------------------- the HTTP server stub
\* the 'close' event with no callback registered by server.close
closeCallbacks_none(listeners) == {}

\* the 'close' event: the callbacks of server.close run, the first one calls
\* process.exit(0); {} when there is no callback
closeCallbacks(listeners) == IF listeners > 0 THEN {0} ELSE {}

\* a client connects (keep-alive: the connection stays open between requests)
Connect ==
  /\ exitCode = {}
  /\ server = "listening"
  /\ connections.idle + connections.active < MaxConnections
  /\ connections' = [connections EXCEPT !.idle = @ + 1]
  /\ UNCHANGED <<server, closeListeners, timers, signals, exitCode>>
  /\ UNCHANGED <<calendarVars, hookVars, generatorVars>>

\* a request arrives on an open connection
Request ==
  /\ exitCode = {}
  /\ connections.idle > 0
  /\ connections' = [idle |-> connections.idle - 1, active |-> connections.active + 1]
  /\ UNCHANGED <<server, closeListeners, timers, signals, exitCode>>
  /\ UNCHANGED <<calendarVars, hookVars, generatorVars>>

\* app.get('/'): res.json({ message: 'Hello World' }) ends the request
Respond ==
  /\ exitCode = {}
  /\ connections.active > 0
  /\ connections' = [idle |-> connections.idle + 1, active |-> connections.active - 1]
  /\ UNCHANGED <<server, closeListeners, timers, signals, exitCode>>
  /\ UNCHANGED <<calendarVars, hookVars, generatorVars>>

\* a connection without a request in progress ends (the client hangs up, the
\* keep-alive timeout passes, or the closing server drops it)
Disconnect ==
  /\ exitCode = {}
  /\ connections.idle > 0
  /\ connections' = [connections EXCEPT !.idle = @ - 1]
  /\ UNCHANGED <<server, closeListeners, timers, signals, exitCode>>
  /\ UNCHANGED <<calendarVars, hookVars, generatorVars>>

\* SIGTERM or SIGINT: gracefulShutdown(signal), that is server.close(callback)
\* and setTimeout(..., 10000)
GracefulShutdown(signal) ==
  /\ exitCode = {}
  /\ Len(signals) < MaxSignals
  /\ signals' = Append(signals, signal)
  /\ server' = IF server = "listening" THEN "closing" ELSE server
  /\ closeListeners' = closeListeners + 1
  /\ timers' = timers + 1
  /\ UNCHANGED <<connections, exitCode>>
  /\ UNCHANGED <<calendarVars, hookVars, generatorVars>>

\* the server has stopped listening and its last connection has ended: it
\* emits 'close'
ServerClosed ==
  /\ exitCode = {}
  /\ server = "closing"
  /\ connections = [idle |-> 0, active |-> 0]
  /\ server' = "closed"
  /\ exitCode' = closeCallbacks(closeListeners)
  /\ closeListeners' = 0
  /\ UNCHANGED <<connections, timers, signals>>
  /\ UNCHANGED <<calendarVars, hookVars, generatorVars>>

\* the oldest force-shutdown timer fires: process.exit(1)
TimerFires ==
  /\ exitCode = {}
  /\ timers > 0
  /\ timers' = timers - 1
  /\ exitCode' = {1}
  /\ UNCHANGED <<server, connections, closeListeners, signals>>
  /\ UNCHANGED <<calendarVars, hookVars, generatorVars>>

InitShutdown ==
  /\ med = [timingSequence |-> << >>]
  /\ currentDate = [day |-> 2, ms |-> 48600000]
  /\ date = [day |-> 0, ms |-> 0]
  /\ schedule = [called |-> FALSE]
  /\ InitHook
  /\ InitGeneratorUnused
  /\ InitServer

NextShutdown ==
  \/ Connect
  \/ Request
  \/ Respond
  \/ Disconnect
  \/ \E signal \in {"SIGTERM", "SIGINT"} : GracefulShutdown(signal)
  \/ ServerClosed
  \/ TimerFires

\* a timer that is set fires when its 10 seconds are over, and the server
\* emits 'close' once nothing keeps it open
SpecShutdown ==
  InitShutdown /\ [][NextShutdown]_vars /\ WF_vars(TimerFires) /\ WF_vars(ServerClosed)

\* ------------------------------------------------- vocabulary of the claims
Called == "called" \notin DOMAIN schedule

ts == med.timingSequence

\* whole calendar days from the regimen start to the projected date
DayOffset == date.day - currentDate.day

HasDuration(t) == t.duration # {}
DurationOf(t) == IF t.duration = {} THEN 0 ELSE CHOOSE v \in t.duration : TRUE
IsOpenEnded(t) == t.duration = {}
IsPositive(t) == HasDuration(t) /\ DurationOf(t) > 0

RECURSIVE SumDurations(_)
SumDurations(n) == IF n = 0 THEN 0 ELSE SumDurations(n - 1) + DurationOf(ts[n])

\* the window of phase i starts where the windows of the phases before it end
WindowStart(i) == SumDurations(i - 1)

\* Phase i is reached through phases of positive duration, and day offset k
\* lies in its window: [start, start + duration) for a positive duration,
\* [start, infinity) for an open-ended phase.
InWindow(i, k) ==
  /\ \A j \in 1..(i - 1) : IsPositive(ts[j])
  /\ \/ IsPositive(ts[i]) /\ WindowStart(i) <= k /\ k < WindowStart(i) + DurationOf(ts[i])
     \/ IsOpenEnded(ts[i]) /\ WindowStart(i) <= k

\* the occurrence phase i gives for the projected date
FromPhase(i) ==
  timingSchedule(ts[i], DayOffset, WindowStart(i), date, startOfDay(currentDate))

ListsWeekdays(t) == t.weekdays # {} /\ (CHOOSE v \in t.weekdays : TRUE) # <<>>
HasSpecificTimes(t) == t.specificTimes # {} /\ (CHOOSE v \in t.specificTimes : TRUE) # <<>>

\* the weekday of the projected date, 0 = Sunday (day 0 is Thursday 1970-01-01)
DateWeekday == (date.day + 4) % 7

WeekdayListed(t) ==
  LET w == CHOOSE v \in t.weekdays : TRUE
  IN \E j \in 1..Len(w) : toLowerCase(w[j]) = weekdayNames[DateWeekday + 1]

HasTimes(r) == "times" \in DOMAIN r
IsAsNeededResult(r) == "asNeeded" \in DOMAIN r /\ r.asNeeded

\* ------------------------------------------------------------------ claims

\* C1: for a timingSequence of phases with positive durations, optionally
\* followed by one open-ended phase, the result at a day offset k >= 0 is the
\* one computed from the unique phase whose window [d1+..+d(i-1), d1+..+di)
\* holds k (the open-ended phase from d1+..+dn on); once a day for 7 days and
\* then twice a day gives ["08:00"] at offsets 0..6 and ["08:00","20:00"] from 7.
PositiveThenOpen ==
  \A i \in 1..Len(ts) : IsPositive(ts[i]) \/ (i = Len(ts) /\ IsOpenEnded(ts[i]))

C1_WindowsPartition ==
  (Called /\ PositiveThenOpen /\ DayOffset >= 0) =>
     /\ Cardinality({i \in 1..Len(ts) : InWindow(i, DayOffset)}) <= 1
     /\ \A i \in 1..Len(ts) : InWindow(i, DayOffset) => schedule = FromPhase(i)
     /\ (ts = withDose(<<PhaseA, PhaseB>>)) =>
           /\ DayOffset \in 0..6 => schedule.times = <<"08:00">> /\ schedule.doseAmount = 1
           /\ DayOffset >= 7 => schedule.times = <<"08:00", "20:00">> /\ schedule.doseAmount = 2

C1_Witness ==
  /\ Called /\ PositiveThenOpen /\ Len(ts) = 2
  /\ DurationOf(ts[1]) = MaxDuration
  /\ DayOffset = WindowStart(2)
  /\ HasTimes(schedule) /\ schedule.doseAmount = 2

\* C2: the window of a bounded phase is its duration converted to whole days
\* by durationUnit (weeks x 7): a first phase of d weeks determines the result
\* at the day offsets 0 .. 7d-1.
WindowDays(t) ==
  IF t.durationUnit # {} /\ startsWith(toLowerCase(CHOOSE u \in t.durationUnit : TRUE), s_week)
  THEN 7 * DurationOf(t)
  ELSE DurationOf(t)

C2_DurationUnitConverted ==
  (Called /\ Len(ts) >= 1 /\ IsPositive(ts[1])
     /\ 0 <= DayOffset /\ DayOffset < WindowDays(ts[1]))
  => schedule = FromPhase(1)

C4_NoWindowIsNull ==
  (Called /\ \/ ts = << >>
             \/ /\ \A i \in 1..Len(ts) : HasDuration(ts[i])
                /\ DayOffset >= SumDurations(Len(ts)))
  => schedule = null

\* C5: a phase with duration = 0 never determines the result; behind one such
\* phase an open-ended phase determines the result at every offset >= 0.
C5_ZeroDurationSkipped ==
  (Called /\ Len(ts) = 2 /\ ts[1].duration = {0} /\ IsOpenEnded(ts[2])
     /\ DayOffset >= 0)
  => schedule = FromPhase(2)

\* C6: a phase that is not as-needed and lists weekdays gives an occurrence
\* only on dates whose weekday it lists, on every path that computes times.
C6_WeekdaysGateEveryPath ==
  \A i \in 1..Len(ts) :
     (Called /\ InWindow(i, DayOffset) /\ ~ts[i].isAsNeeded
        /\ ListsWeekdays(ts[i]) /\ schedule # null)
     => WeekdayListed(ts[i])

\* C7: on every date in the window of an as-needed phase the result is an
\* as-needed occurrence without times, whatever weekdays, period, periodUnit,
\* specificTimes and timeCategories the phase has.
C7_AsNeededUngated ==
  \A i \in 1..Len(ts) :
     (Called /\ InWindow(i, DayOffset) /\ ts[i].isAsNeeded)
     => IsAsNeededResult(schedule) /\ ~HasTimes(schedule)

C7_Witness ==
  /\ Called /\ Len(ts) = 2 /\ InWindow(2, DayOffset)
  /\ ts[2].isAsNeeded /\ HasSpecificTimes(ts[2])
  /\ ListsWeekdays(ts[2]) /\ ~WeekdayListed(ts[2])
  /\ IsAsNeededResult(schedule)

\* C8 as stated: max is frequencyMax when present (0 included), else
\* frequency when present (0 included), else 1.
NullishMax(t) ==
  IF t.frequencyMax # {} THEN CHOOSE v \in t.frequencyMax : TRUE
  ELSE IF t.frequency # {} THEN CHOOSE v \in t.frequency : TRUE
  ELSE 1

C8_MaxKeepsZero ==
  \A i \in 1..Len(ts) :
     (Called /\ InWindow(i, DayOffset) /\ ts[i].isAsNeeded)
     => schedule.max = NullishMax(ts[i])

\* C8 amended: max is frequencyMax when present and not 0, else frequency when
\* present and not 0, else 1; doseAmount and doseUnit are the matched phase's.
NonZero(x) == x # {} /\ x # {0}

FalsyMax(t) ==
  IF NonZero(t.frequencyMax) THEN CHOOSE v \in t.frequencyMax : TRUE
  ELSE IF NonZero(t.frequency) THEN CHOOSE v \in t.frequency : TRUE
  ELSE 1

C8_MaxSkipsZero ==
  \A i \in 1..Len(ts) :
     (Called /\ InWindow(i, DayOffset) /\ ts[i].isAsNeeded)
     => /\ schedule.max = FalsyMax(ts[i])
        /\ schedule.doseAmount = ts[i].doseAmount
        /\ schedule.doseUnit = ts[i].doseUnit

C8_Witness ==
  /\ Called /\ Len(ts) = 2 /\ InWindow(2, DayOffset) /\ ts[2].isAsNeeded
  /\ ts[2].frequencyMax = {0} /\ ts[2].frequency = {2}
  /\ schedule.max = 2 /\ schedule.doseAmount = 2

\* C9: a phase that is not as-needed and has specificTimes and weekdays gives,
\* on a date in its window, exactly its specificTimes (source "explicit") when
\* the weekday of the date is listed and null when it is not, whatever its
\* period and periodUnit.
C9_ExplicitTimesOnWeekdays ==
  \A i \in 1..Len(ts) :
     (Called /\ InWindow(i, DayOffset) /\ ~ts[i].isAsNeeded
        /\ HasSpecificTimes(ts[i]) /\ ListsWeekdays(ts[i]))
     => IF WeekdayListed(ts[i])
        THEN /\ HasTimes(schedule)
             /\ schedule.times = (CHOOSE v \in ts[i].specificTimes : TRUE)
             /\ schedule.source = "explicit"
        ELSE schedule = null

C9_Witness ==
  /\ Called /\ Len(ts) = 2 /\ InWindow(2, DayOffset) /\ ~ts[2].isAsNeeded
  /\ HasSpecificTimes(ts[2]) /\ ListsWeekdays(ts[2]) /\ WeekdayListed(ts[2])
  /\ ts[2].period = {2} /\ ts[2].periodUnit = {s_week}
  /\ (DayOffset - WindowStart(2)) \div 7 = 1
  /\ HasTimes(schedule) /\ schedule.times = <<"09:00", "21:00">>

\* C10: a phase that is not as-needed, has specificTimes, no weekdays and a
\* periodUnit starting with "day" fires exactly on the dates of its window
\* where (dayOffset - windowStart) mod max(1, period) = 0, and is null on the
\* other dates of the window.
PeriodOf(t) == IF t.period = {} THEN 1 ELSE CHOOSE v \in t.period : TRUE

DailyUnit(t) ==
  t.periodUnit # {} /\ startsWith(toLowerCase(CHOOSE u \in t.periodUnit : TRUE), s_day)

C10_EveryNDaysFromWindowStart ==
  \A i \in 1..Len(ts) :
     (Called /\ InWindow(i, DayOffset) /\ ~ts[i].isAsNeeded
        /\ HasSpecificTimes(ts[i]) /\ ~ListsWeekdays(ts[i]) /\ DailyUnit(ts[i]))
     => IF (DayOffset - WindowStart(i)) % (IF PeriodOf(ts[i]) > 1 THEN PeriodOf(ts[i]) ELSE 1) = 0
        THEN /\ HasTimes(schedule)
             /\ schedule.times = (CHOOSE v \in ts[i].specificTimes : TRUE)
        ELSE schedule = null

C10_Witness ==
  /\ Called /\ Len(ts) = 2 /\ InWindow(2, DayOffset) /\ ~ts[2].isAsNeeded
  /\ HasSpecificTimes(ts[2]) /\ ~ListsWeekdays(ts[2]) /\ DailyUnit(ts[2])
  /\ ts[2].period = {2} /\ WindowStart(2) = 1 /\ DayOffset = 3
  /\ HasTimes(schedule)

\* C11: without specificTimes (absent or empty) and with timeCategories, each
\* category maps by case-insensitive substring, in the priority "morn" 08:00,
\* "noon"/"afternoon" 14:00, "even"/"night" 20:00, "bed" 22:00; unrecognised
\* categories are dropped and the order is kept. When a category maps, the
\* mapped times are returned under the gate explicit times have; when none
\* maps, the result is the one of the frequency/period calculation.
CategoryClock(cat) ==
  LET c == toLowerCase(cat) IN
  CASE includes(c, s_morn) -> "08:00"
    [] ~includes(c, s_morn) /\ (includes(c, s_noon) \/ includes(c, s_afternoon)) -> "14:00"
    [] ~includes(c, s_morn) /\ ~includes(c, s_noon)
         /\ (includes(c, s_even) \/ includes(c, s_night)) -> "20:00"
    [] ~includes(c, s_morn) /\ ~includes(c, s_noon) /\ ~includes(c, s_even)
         /\ ~includes(c, s_night) /\ includes(c, s_bed) -> "22:00"
    [] OTHER -> "none"

RECURSIVE MappedClocks(_)
MappedClocks(cats) ==
  IF cats = << >> THEN << >>
  ELSE IF CategoryClock(Head(cats)) = "none" THEN MappedClocks(Tail(cats))
  ELSE <<CategoryClock(Head(cats))>> \o MappedClocks(Tail(cats))

UsesCategories(t) ==
  ~t.isAsNeeded /\ ~HasSpecificTimes(t)
  /\ t.timeCategories # {} /\ (CHOOSE v \in t.timeCategories : TRUE) # << >>

CategoriesOf(t) == CHOOSE v \in t.timeCategories : TRUE

\* the phase with its mapped times given as explicit times
AsExplicit(t) == [t EXCEPT !.specificTimes = {MappedClocks(CategoriesOf(t))}]

C11_CategoriesMapAndGate ==
  \A i \in 1..Len(ts) :
     (Called /\ InWindow(i, DayOffset) /\ UsesCategories(ts[i]))
     => IF MappedClocks(CategoriesOf(ts[i])) # << >>
        THEN LET e == timingSchedule(AsExplicit(ts[i]), DayOffset, WindowStart(i),
                                     date, startOfDay(currentDate))
             IN /\ (schedule = null) <=> (e = null)
                /\ schedule # null =>
                     /\ schedule.times = MappedClocks(CategoriesOf(ts[i]))
                     /\ schedule.source = "explicit"
        ELSE schedule = calculatedSchedule(ts[i], DayOffset, WindowStart(i),
                                           date, startOfDay(currentDate))

C11_Witness ==
  /\ Called /\ Len(ts) = 2 /\ InWindow(2, DayOffset) /\ UsesCategories(ts[2])
  /\ CategoriesOf(ts[2]) = <<s_Noon, s_eveningBeforeBed>>
  /\ ts[2].specificTimes = {<< >>}
  /\ HasTimes(schedule) /\ schedule.times = <<"14:00", "20:00">>


\* C12: in the calculated path with a daily period of 1, a date in the window
\* gets the times of the table (1: 08:00; 2: 08:00 20:00; 3: 08:00 14:00
\* 20:00; 4: 08:00 12:00 16:00 20:00), and 08:00 alone when the frequency is
\* absent or 0; one open-ended daily phase of frequency 2 gives 08:00 20:00 on
\* every date from the regimen start on.
Calculated(t) ==
  /\ ~t.isAsNeeded /\ ~HasSpecificTimes(t)
  /\ \/ t.timeCategories = {}
     \/ MappedClocks(CategoriesOf(t)) = << >>

FrequencyOf(t) == IF t.frequency = {} THEN 0 ELSE CHOOSE v \in t.frequency : TRUE

DailyEveryDay(t) ==
  /\ t.periodUnit = {} \/ startsWith(toLowerCase(CHOOSE u \in t.periodUnit : TRUE), s_day)
  /\ PeriodOf(t) = 1

TableTimes(f) ==
  CASE f = 0 -> <<"08:00">>
    [] f = 1 -> <<"08:00">>
    [] f = 2 -> <<"08:00", "20:00">>
    [] f = 3 -> <<"08:00", "14:00", "20:00">>
    [] f = 4 -> <<"08:00", "12:00", "16:00", "20:00">>

C12_DailyTable ==
  \A i \in 1..Len(ts) :
     (Called /\ InWindow(i, DayOffset) /\ Calculated(ts[i]) /\ DailyEveryDay(ts[i])
        /\ FrequencyOf(ts[i]) <= 4)
     => /\ HasTimes(schedule)
        /\ schedule.times = TableTimes(FrequencyOf(ts[i]))
        /\ schedule.source = "calculated"

C12_Witness ==
  /\ Called /\ Len(ts) = 2 /\ InWindow(2, DayOffset) /\ Calculated(ts[2])
  /\ DailyEveryDay(ts[2]) /\ ts[2].frequency = {0}
  /\ HasTimes(schedule) /\ schedule.times = <<"08:00">>

\* C13: for a frequency f > 4 the times are exactly f clock times, the i-th
\* (i = 0..f-1) being round(8 + 12*i/(f-1)) written HH:00; the first is 08:00
\* and the last 20:00.
HourClocks ==
  <<"08:00", "09:00", "10:00", "11:00", "12:00", "13:00", "14:00",
    "15:00", "16:00", "17:00", "18:00", "19:00", "20:00">>

\* the whole hour h with h - 1/2 <= 8 + 12*i/(f-1) < h + 1/2
NearestHour(f, i) ==
  CHOOSE h \in 8..20 :
     /\ (2 * h - 1) * (f - 1) <= 2 * (8 * (f - 1) + 12 * i)
     /\ 2 * (8 * (f - 1) + 12 * i) < (2 * h + 1) * (f - 1)

C13_EvenSpreadAboveFour ==
  \A i \in 1..Len(ts) :
     (Called /\ InWindow(i, DayOffset) /\ Calculated(ts[i]) /\ DailyEveryDay(ts[i])
        /\ FrequencyOf(ts[i]) > 4)
     => LET f == FrequencyOf(ts[i]) IN
        /\ HasTimes(schedule)
        /\ Len(schedule.times) = f
        /\ \A j \in 0..(f - 1) : schedule.times[j + 1] = HourClocks[NearestHour(f, j) - 7]
        /\ schedule.times[1] = "08:00"
        /\ schedule.times[f] = "20:00"

C13_Witness ==
  /\ Called /\ Len(ts) = 1 /\ InWindow(1, DayOffset) /\ Calculated(ts[1])
  /\ DailyEveryDay(ts[1]) /\ ts[1].frequency = {9}
  /\ HasTimes(schedule) /\ Len(schedule.times) = 9
  /\ schedule.times[2] = "10:00" /\ schedule.times[9] = "20:00"


\* C14: a calculated phase with a periodUnit starting with "week" and period p
\* gives an occurrence exactly on the dates of its window where
\* floor((dayOffset - windowStart) / 7) mod max(1, p) = 0 and the weekday is
\* one of (regimenStartWeekday + round(i*7/f)) mod 7, i in 0..f-1; with
\* period 2, frequency 3, open-ended, from a Sunday, the dosing days are the
\* offsets 0, 2, 5, none of 7..13, then 14, 16, 19.
WeeklyUnit(t) ==
  t.periodUnit # {} /\ startsWith(toLowerCase(CHOOSE u \in t.periodUnit : TRUE), s_week)

\* frequency clamped to 1..7, an absent or 0 frequency counting as 1
WeeklyDoses(t) ==
  IF FrequencyOf(t) < 1 THEN 1 ELSE IF FrequencyOf(t) > 7 THEN 7 ELSE FrequencyOf(t)

\* round(i*7/f): the whole number r with r - 1/2 <= i*7/f < r + 1/2
RoundedSeventh(i, f) ==
  CHOOSE r \in 0..7 : (2 * r - 1) * f <= 14 * i /\ 14 * i < (2 * r + 1) * f

StartWeekday == (currentDate.day + 4) % 7

DosingWeekdays(t) ==
  {(StartWeekday + RoundedSeventh(i, WeeklyDoses(t))) % 7 : i \in 0..(WeeklyDoses(t) - 1)}

FiringWeek(t, i) ==
  ((DayOffset - WindowStart(i)) \div 7) % (IF PeriodOf(t) > 1 THEN PeriodOf(t) ELSE 1) = 0

C14_WeeklyDosingDays ==
  /\ \A i \in 1..Len(ts) :
       (Called /\ InWindow(i, DayOffset) /\ Calculated(ts[i]) /\ WeeklyUnit(ts[i]))
       => ((schedule # null)
             <=> (FiringWeek(ts[i], i) /\ DateWeekday \in DosingWeekdays(ts[i])))
  /\ (Called /\ Len(ts) = 1 /\ ts[1].period = {2} /\ ts[1].frequency = {3}
        /\ StartWeekday = 0 /\ DayOffset \in 0..20)
     => ((schedule # null) <=> (DayOffset \in {0, 2, 5, 14, 16, 19}))

C14_Witness ==
  /\ Called /\ Len(ts) = 2 /\ InWindow(2, DayOffset) /\ Calculated(ts[2])
  /\ WeeklyUnit(ts[2]) /\ ts[2].period = {2} /\ ts[2].frequency = {3}
  /\ WindowStart(2) = 1 /\ DayOffset = 7 /\ StartWeekday = 0
  /\ HasTimes(schedule)

\* C15: for every weekly frequency f (clamped to 1..7) and every weekday of
\* the regimen start, the set of chosen weekdays has exactly f members.
C15_ChosenWeekdaysDistinct ==
  \A i \in 1..Len(ts) :
     (Calculated(ts[i]) /\ WeeklyUnit(ts[i]))
     => Cardinality(chosenWeekdays(getDay(startOfDay(currentDate)), WeeklyDoses(ts[i])))
          = WeeklyDoses(ts[i])

C15_Witness ==
  /\ Called /\ Len(ts) = 1 /\ Calculated(ts[1]) /\ WeeklyUnit(ts[1])
  /\ ts[1].frequency = {6} /\ StartWeekday = 5
  /\ chosenWeekdays(getDay(startOfDay(currentDate)), 6) = {5, 6, 0, 2, 3, 4}
  /\ HasTimes(schedule) /\ DateWeekday = 2


\* C16: a calculated phase whose periodUnit starts with neither "day" nor
\* "week" is dosed daily: every date of its window gets the frequency-table
\* times, whatever its period.
OtherUnit(t) ==
  /\ t.periodUnit # {} /\ (CHOOSE u \in t.periodUnit : TRUE) # << >>
  /\ ~startsWith(toLowerCase(CHOOSE u \in t.periodUnit : TRUE), s_day)
  /\ ~startsWith(toLowerCase(CHOOSE u \in t.periodUnit : TRUE), s_week)

FrequencyTimes(f) ==
  IF f <= 4 THEN TableTimes(f)
  ELSE [j \in 1..f |-> HourClocks[NearestHour(f, j - 1) - 7]]

C16_OtherUnitIsDaily ==
  \A i \in 1..Len(ts) :
     (Called /\ InWindow(i, DayOffset) /\ Calculated(ts[i]) /\ OtherUnit(ts[i]))
     => /\ HasTimes(schedule)
        /\ schedule.times = FrequencyTimes(FrequencyOf(ts[i]))
        /\ schedule.source = "calculated"

C16_Witness ==
  /\ Called /\ Len(ts) = 2 /\ InWindow(2, DayOffset) /\ Calculated(ts[2])
  /\ ts[2].periodUnit = {s_month} /\ ts[2].period = {3} /\ ts[2].frequency = {5}
  /\ (DayOffset - WindowStart(2)) % 3 = 1
  /\ HasTimes(schedule) /\ Len(schedule.times) = 5


\* C17: first match wins. The result is computed from the phase whose window
\* holds the date and from no other, and a phase placed after an open-ended
\* phase never determines the result, also on the dates the open-ended phase
\* is gated out (null).
C17_FirstMatchWins ==
  \A i \in 1..Len(ts) :
     /\ (Called /\ InWindow(i, DayOffset)) => schedule = FromPhase(i)
     /\ (Called /\ schedule # null /\ \E j \in 1..(i - 1) : IsOpenEnded(ts[j]))
        => schedule.doseAmount # ts[i].doseAmount

C17_Witness ==
  /\ Called /\ Len(ts) = 2 /\ IsOpenEnded(ts[1]) /\ InWindow(1, DayOffset)
  /\ schedule = null
  /\ timingSchedule(ts[2], DayOffset, 0, date, startOfDay(currentDate)) # null


\* C18: the regimen start is fixed for the medication list: moving the
\* calendar a month forward or back leaves unchanged the day offset, and so
\* the schedule, that getMedicationSchedule gives a medication on a date.
C18_NavigationKeepsSchedule ==
  [][/\ daysDiffOf(date, currentDate') = daysDiffOf(date, currentDate)
     /\ getMedicationSchedule(med, date, currentDate')
          = getMedicationSchedule(med, date, currentDate)]_vars


\* C19: dates are compared by day: the day offset is the number of whole
\* calendar days from the regimen start to the target date, and the result
\* is the one for the two dates at midnight, whatever their times of day.
C19_DayGranularity ==
  Called =>
    /\ daysDiffOf(date, currentDate) = date.day - currentDate.day
    /\ schedule = getMedicationSchedule(med, [day |-> date.day, ms |-> 0],
                                        [day |-> currentDate.day, ms |-> 0])

C19_Witness ==
  /\ Called /\ schedule # null
  /\ date.ms # 0 /\ currentDate.ms # 0 /\ date.ms < currentDate.ms
  /\ date.day > currentDate.day


\* ---------------------------------------------------- claims about the hook
Pending(i) == i \in 1..Len(calls) /\ calls[i].promise = "pending"

\* call i settles in this step
Settles(i) == Pending(i) /\ calls'[i].outcome # {}

OutcomeOf(i) == CHOOSE o \in calls'[i].outcome : TRUE

TextOf(o) == CHOOSE t \in o.text : TRUE

\* the request threw, or it answered with a text that is not valid JSON
ParsingFailed(o) ==
  \/ o.kind = "throws"
  \/ o.kind = "resolves" /\ o.text # {} /\ ~TextOf(o).json

ErrorText(o) ==
  IF o.kind = "throws" THEN o.err.name \o ": " \o o.err.message
  ELSE "SyntaxError: Unexpected token"

\* C21: when the parsing call fails (the request throws or its text is not
\* valid JSON) sendPrompt rejects, one assistant message with the error text
\* is added to the chat, isLoading is false, the medications are unchanged
\* and no request is issued.
C21_FailureSurfaces ==
  [][\A i \in 1..Len(calls) :
       (Settles(i) /\ ParsingFailed(OutcomeOf(i))) =>
         /\ calls'[i].promise = "rejected"
         /\ messages' = Append(messages, [role |-> "assistant",
                                          text |-> ErrorText(OutcomeOf(i))])
         /\ isLoading' = FALSE
         /\ response' = response
         /\ Len(calls') = Len(calls)
         /\ \A j \in 1..Len(calls) : Pending(j) \/ calls'[j].promise # "pending"]_vars


\* the outcome is a text that parses to a MedicationData
Parsed(o) == o.kind = "resolves" /\ o.text # {} /\ TextOf(o).json

DataOf(i) == TextOf(CHOOSE o \in calls[i].outcome : TRUE).value

Succeeded(i) ==
  /\ i \in 1..Len(calls)
  /\ calls[i].outcome # {}
  /\ Parsed(CHOOSE o \in calls[i].outcome : TRUE)

\* C22: medication records are replaced wholesale: when a sendPrompt call
\* succeeds the medications held become exactly the data parsed from its
\* response, and no other step (a projection of the held statements
\* included) changes the medications held.
C22_ReplacedWholesale ==
  [][/\ \A i \in 1..Len(calls) :
          (Settles(i) /\ Parsed(OutcomeOf(i))) =>
             /\ calls'[i].promise = "fulfilled"
             /\ response' = TextOf(OutcomeOf(i)).value
     /\ response' # response =>
          \E i \in 1..Len(calls) : Settles(i) /\ Parsed(OutcomeOf(i))]_vars

C22_Witness ==
  /\ \E i, j \in 1..Len(calls) :
       /\ i # j /\ Succeeded(i) /\ Succeeded(j)
       /\ Len(DataOf(i).medicationStatements) = 2
       /\ Len(DataOf(j).medicationStatements) = 1
       /\ response = DataOf(j)
  /\ schedule # [called |-> FALSE]
  /\ med = response.medicationStatements[1]


\* C25: isLoading is true in every state in which a sendPrompt call has
\* started and not yet settled, also when calls overlap.
C25_LoadingWhilePending ==
  (\E i \in 1..Len(calls) : Pending(i)) => isLoading

\* C26: when two sendPrompt calls have both succeeded and none is pending,
\* the medications held are the response to the prompt that was sent last,
\* in whichever order the responses arrived.
C26_LastPromptWins ==
  (/\ Len(calls) = 2
   /\ Succeeded(1) /\ Succeeded(2)) => response = DataOf(2)


\* number of dose clock-times of a result
DoseCount(r) == IF r = null \/ ~HasTimes(r) THEN 0 ELSE Len(r.times)

RECURSIVE SumDoses(_, _)
SumDoses(firstDay, n) ==
  IF n = 0 THEN 0
  ELSE DoseCount(getMedicationSchedule(med, [day |-> firstDay + n - 1, ms |-> 0], currentDate))
       + SumDoses(firstDay, n - 1)

\* the doses projected over the 7 dates of the week of phase i that holds
\* the projected date, weeks being counted from the start of the window
WeekTotal(i) ==
  SumDoses(currentDate.day + WindowStart(i) + 7 * ((DayOffset - WindowStart(i)) \div 7), 7)

\* C23: for a weekly calculated phase with period 1 and frequency f in 1..7,
\* the dose clock-times projected over one full firing week (7 consecutive
\* dates of the window) number f, frequency being the doses per period.
C23_WeeklyDoseTotal ==
  \A i \in 1..Len(ts) :
     (Called /\ InWindow(i, DayOffset) /\ IsOpenEnded(ts[i])
        /\ Calculated(ts[i]) /\ WeeklyUnit(ts[i]) /\ ts[i].period = {1}
        /\ FrequencyOf(ts[i]) \in 1..7)
     => WeekTotal(i) = FrequencyOf(ts[i])


\* the hour of a clock time HH:00
AllClocks ==
  <<"00:00", "01:00", "02:00", "03:00", "04:00", "05:00", "06:00", "07:00",
    "08:00", "09:00", "10:00", "11:00", "12:00", "13:00", "14:00", "15:00",
    "16:00", "17:00", "18:00", "19:00", "20:00", "21:00", "22:00", "23:00">>

ClockIndex(c) == CHOOSE h \in 1..24 : AllClocks[h] = c

StrictlyIncreasing(times) ==
  \A j \in 1..(Len(times) - 1) : ClockIndex(times[j]) < ClockIndex(times[j + 1])

\* C24: every result that is not null, not as-needed and has source
\* "calculated" carries a non-empty list of clock times that is strictly
\* increasing (no time twice), for every frequency from 0 to 24.
C24_CalculatedTimesIncrease ==
  (Called /\ schedule # null /\ ~IsAsNeededResult(schedule)
     /\ "source" \in DOMAIN schedule /\ schedule.source = "calculated")
  => /\ HasTimes(schedule)
     /\ schedule.times # << >>
     /\ StrictlyIncreasing(schedule.times)


NonDecreasing(times) ==
  \A j \in 1..(Len(times) - 1) : ClockIndex(times[j]) <= ClockIndex(times[j + 1])

\* C24 (amended): the list is non-empty and in non-decreasing order for every
\* frequency, and strictly increasing when it holds at most 13 times (13
\* whole hours lie between 08:00 and 20:00); from frequency 14 on a clock
\* time occurs twice.
C24_IncreaseUpToThirteen ==
  (Called /\ schedule # null /\ ~IsAsNeededResult(schedule)
     /\ "source" \in DOMAIN schedule /\ schedule.source = "calculated")
  => /\ HasTimes(schedule)
     /\ schedule.times # << >>
     /\ NonDecreasing(schedule.times)
     /\ Len(schedule.times) <= 13 => StrictlyIncreasing(schedule.times)
     /\ Len(schedule.times) > 13 => ~StrictlyIncreasing(schedule.times)

C24_Witness ==
  /\ Called /\ schedule # null /\ HasTimes(schedule)
  /\ "source" \in DOMAIN schedule /\ schedule.source = "calculated"
  /\ Len(schedule.times) = 13
  /\ schedule.times[12] = "19:00"


\* ----------------------------------------------- claims about the generator
Terminated == walk.state \in {"returned", "threw"}

\* C27: processGraph terminates on every finite graph, cyclic ones included:
\* no node name is processed twice, so there are at most as many resources
\* as the graph has nodes, and the walk eventually returns (or throws for a
\* graph without an Initial node).
C27_WalkTerminates ==
  /\ [](\A j, k \in 1..Len(processed) : j # k => processed[j] # processed[k])
  /\ [](Len(resources) <= Cardinality(DOMAIN graph))
  /\ <>Terminated

C27_Witness ==
  /\ walk.state = "returned"
  /\ processed = <<"Initial", "N1", "N2">>
  /\ graph["N2"].direct_transition = {"N1"}
  /\ graph["N1"].type = "ConditionOnset"
  /\ Len(resources) = 1


\* the node processed by this step (its handler ran)
Handles(n) == Len(processed') = Len(processed) + 1 /\ processed'[Len(processed')] = n

RECURSIVE Cumulative(_, _)
Cumulative(entries, k) ==
  IF k = 0 THEN 0 ELSE entries[k].distribution + Cumulative(entries, k - 1)

Matches(entry, attrs) ==
  entry.condition = {} \/ evaluateCondition(CHOOSE c \in entry.condition : TRUE, attrs)

\* the one transition the precedence rules pick for a node, {} if none
Picked(node, attrs, r) ==
  IF node.direct_transition # {} THEN node.direct_transition
  ELSE LET cs == IF node.conditional_transition = {} THEN << >>
                 ELSE CHOOSE c \in node.conditional_transition : TRUE
           ds == IF node.distributed_transition = {} THEN << >>
                 ELSE CHOOSE d \in node.distributed_transition : TRUE
           cm == {k \in 1..Len(cs) : Matches(cs[k], attrs)}
           dm == {k \in 1..Len(ds) : r < Cumulative(ds, k)}
       IN IF cm # {} THEN {cs[CHOOSE k \in cm : \A j \in cm : k <= j].transition}
          ELSE IF dm # {} THEN {ds[CHOOSE k \in dm : \A j \in dm : k <= j].transition}
          ELSE {}

\* C28: followTransition follows at most one successor of a node, picked by
\* precedence: the direct transition when present and nothing else; else the
\* first conditional entry whose condition is absent or true; else, when no
\* conditional entry matched, the distributed entry the cumulative
\* distribution selects; the walk ends at the node when nothing is picked or
\* the picked node is not in the graph.
C28_TransitionPrecedence ==
  [][\A n \in DOMAIN graph :
       (Handles(n) /\ graph[n].type \in handledTypes) =>
          LET picked == Picked(graph[n], attributes', rand') IN
          IF picked # {} /\ (CHOOSE p \in picked : TRUE) \in DOMAIN graph
          THEN walk' = [state |-> "processNode", node |-> CHOOSE p \in picked : TRUE]
          ELSE walk' = [state |-> "returned"]]_vars

C28_Witness ==
  /\ walk.state = "returned"
  /\ processed = <<"Initial", "N1">>
  /\ graph["N1"].direct_transition = {"Nowhere"}
  /\ graph["N1"].conditional_transition # {}


ReferencesOf(r) == r.encounter \cup r.reasonReference \cup r.addresses

\* C29: every reference emitted in a generated resource (encounter,
\* reasonReference, addresses) names the id of a resource of that type that
\* is in the resources list.
C29_ReferencesResolve ==
  \A k \in 1..Len(resources) :
     \A ref \in ReferencesOf(resources[k]) :
        \E j \in 1..Len(resources) :
           resources[j].resourceType = ref.type /\ resources[j].id = ref.id


\* -------------------------------------------------- claims about the server
\* C30: after a SIGTERM or SIGINT the process always eventually exits: with
\* code 0 when the server finished closing before a timer fired, with code 1
\* when a timer fired first; a second signal during the shutdown changes
\* nothing of this.
C30_ShutdownExits ==
  /\ [](exitCode = {0} => (server = "closed" /\ timers = Len(signals)))
  /\ [](exitCode = {1} => (server # "closed" /\ timers < Len(signals)))
  /\ [](exitCode \in {{}, {0}, {1}})
  /\ [](server = "closed" => exitCode = {0})
  /\ (signals # << >>) ~> (exitCode # {})

C30_Witness ==
  /\ signals = <<"SIGTERM", "SIGINT">>
  /\ exitCode = {1}
  /\ connections.active > 0
  /\ closeListeners = 2

====
